---- MODULE Spec2Model ----
(***************************************************************************)
(* AnimeTracePlugin (src/main.py): the per-user waiting-session / timeout  *)
(* state machine and the dual-mode recognition call.                       *)
(*                                                                         *)
(* The plugin runs on one asyncio event loop: a handler runs without       *)
(* interruption from one await that really suspends to the next.  Each     *)
(* action below is one such uninterrupted stretch of a handler.            *)
(* extract_image_from_event is declared async but never suspends, so the   *)
(* stretch of a handler that awaits it is still uninterrupted.             *)
(*                                                                         *)
(* Spec is the session manager: commands, messages, timeout tasks and      *)
(* terminate().  process_image_recognition reads and writes neither        *)
(* waiting_sessions nor timeout_tasks, so Spec records each call of it in  *)
(* recogs and SpecRecog runs the calls from the state they are entered in. *)
(* SpecLive is Spec with the fairness of the event loop.                   *)
(***************************************************************************)
EXTENDS Integers, Sequences, FiniteSets, TLC

(* ---------------------------------------------------------------- bounds *)
\* commands and recognitions handled in one run: every command that registers a
\* session and every call of process_image_recognition counts once
MaxEvents == 3

(* ------------------------------------------------------ program constants *)
Timeout == 30
HTTP_OK == 200
HTTP_FALLBACK == 422
Models == {"pre_stable", "full_game_model_kira", "animetrace_high_beta"}

(* ------------------------------------------------------------ vocabulary *)
Users == {"u1", "u2"}
NoUser == ""
\* the clock is observed every TickStep seconds
TickStep == Timeout \div 2
\* the n-th command that registers a session creates session event n and task n
CmdIds == 1..MaxEvents
AgeCap == Timeout + TickStep
Min(a, b) == IF a < b THEN a ELSE b

NoSession == [model |-> "", age |-> 0, event |-> 0]
NoTask == 0

VARIABLES
  waiting_sessions,  \* user -> session {model, age = loop.time() - timestamp, event} or NoSession
  timeout_tasks,     \* user -> id of the registered timeout task, or NoTask
  tasks,             \* task id -> the asyncio task running timeout_check
  recogs,            \* the invocations of process_image_recognition, in call order
  prompts,           \* number of "please send an image" prompts sent
  ncmd,              \* number of commands that registered a session (allocates ids)
  terminated,        \* terminate() has run
  liveAtTerminate,   \* history: the tasks that had not finished when terminate() ran
  pure,              \* the call of a pure function under study: its arguments and result
  ignored            \* history: the messages on_message returned on: images that met a
                     \* stale session, and messages without an image

vars == <<waiting_sessions, timeout_tasks, tasks, recogs, prompts, ncmd,
          terminated, liveAtTerminate, pure, ignored>>

(* ------------------------------------------------------ message segments *)
(* A message is the ordered list of components event.get_messages() gives. *)
(* The field values are a small vocabulary of the strings the code tells   *)
(* apart: empty, blank, a URL with surrounding blanks, a file reference    *)
(* with or without an embedded http(s) URL, an attachment placeholder.     *)
None == "None"
UrlA == "http://a/1.png"
UrlB == "https://b/2.png"

Segments ==
  { [type |-> "Image", url |-> " http://a/1.png ", file |-> "", text |-> ""],
    [type |-> "Image", url |-> " ", file |-> "'https://b/2.png'", text |-> ""],
    [type |-> "Image", url |-> "", file |-> "'https://b/2.png'", text |-> ""],
    [type |-> "Image", url |-> "", file |-> "local.jpg", text |-> ""],
    [type |-> "Image", url |-> "", file |-> "", text |-> ""],
    [type |-> "Plain", url |-> "", file |-> "", text |-> "hello"],
    [type |-> "Plain", url |-> "", file |-> "", text |-> "attachmentType=image"] }

Messages ==
  {<<>>} \cup {<<s>> : s \in Segments} \cup {<<s, t>> : s, t \in Segments}

\* the messages the handlers are driven with: text only, an image whose url is
\* blank, and an image without a usable URL followed by one with a URL
Inbox ==
  { <<[type |-> "Plain", url |-> "", file |-> "", text |-> "hello"]>>,
    <<[type |-> "Image", url |-> " ", file |-> "'https://b/2.png'", text |-> ""]>>,
    <<[type |-> "Image", url |-> "", file |-> "local.jpg", text |-> ""],
      [type |-> "Image", url |-> " http://a/1.png ", file |-> "", text |-> ""]>> }

\* str.strip() on the url values of the vocabulary
Strip(s) == IF s = " http://a/1.png " THEN UrlA ELSE IF s = " " THEN "" ELSE s

\* re.findall(r"https?://[^ quote]+", file) on the file values of the vocabulary
FindUrls(f) == IF f = "'https://b/2.png'" THEN <<UrlB>> ELSE <<>>

\* "http" in file_content
ContainsHttp(f) == f = "'https://b/2.png'"

\* the value one segment makes extract_image_from_event return, or None to go on
SegmentUrl(seg) ==
  IF seg.type = "Image"
  THEN IF seg.url # ""
       THEN Strip(seg.url)
       ELSE IF seg.file # "" /\ ContainsHttp(seg.file) /\ Len(FindUrls(seg.file)) > 0
            THEN FindUrls(seg.file)[1]
            ELSE None
  ELSE None

RECURSIVE ScanSegments(_, _)
ScanSegments(msg, i) ==
  IF i > Len(msg) THEN None
  ELSE IF SegmentUrl(msg[i]) # None THEN SegmentUrl(msg[i])
  ELSE ScanSegments(msg, i + 1)

extract_image_from_event(msg) == ScanSegments(msg, 1)

\* Python truthiness of the value extract_image_from_event returned
Truthy(url) == url # None /\ url # ""

(* ------------------------------------------------------------ task state *)
\* status: "none" not created; "sleeping" in asyncio.sleep(30); "cancelling"
\* cancel() was called and CancelledError is to be raised in the task;
\* "cancelled" ended by CancelledError; "sending" inside the fire body,
\* awaiting event.send; "done" ran to its end.
IdleTask == [user |-> NoUser, status |-> "none", slept |-> 0, fired |-> 0,
             notice |-> "none", noticeTo |-> 0]

NewTask(u) == [IdleTask EXCEPT !.user = u, !.status = "sleeping"]

\* asyncio.Task.cancel(): a task that has not finished gets CancelledError at
\* the await it is suspended in; a finished task is left as it is.
Cancel(t) ==
  IF t.status \in {"sleeping", "sending"}
  THEN [t EXCEPT !.status = "cancelling", !.slept = 0]
  ELSE t

(* ----------------------------------------------------- recognition state *)
\* One call of process_image_recognition(event, image_url, model).  sid is the
\* event of the waiting session the image resolved (0: the command carried the
\* image).  pc: "url" awaiting call_animetrace_api_with_url; "download"
\* awaiting download_and_process_image; "b64" awaiting call_animetrace_api;
\* "sending_result" / "sending_error" awaiting event.send; "done" returned;
\* "escaped" left by an exception.  late: terminate() had run when the call
\* was made.
NoResp == [status |-> 0, body |-> "pending"]

NewRecog(u, model, sid, url, late) ==
  [user |-> u, late |-> late, model |-> model, sid |-> sid, image_url |-> url, pc |-> "url",
   urlResp |-> NoResp, dlResp |-> "none", b64Resp |-> NoResp,
   urlCalls |-> 0, downloads |-> 0, b64Calls |-> 0,
   sends |-> 0, reply |-> "none", text |-> "none", delivered |-> FALSE]

HasSession(u) == waiting_sessions[u] # NoSession

\* the commands, recognitions and ignored messages handled so far
NoneIgnored == [stale |-> 0, no_image |-> 0]
Handled == ncmd + Len(recogs) + ignored.stale + ignored.no_image

\* no pure function is under study
NoCall == [pc |-> "none"]

Init ==
  /\ waiting_sessions = [u \in Users |-> NoSession]
  /\ timeout_tasks = [u \in Users |-> NoTask]
  /\ tasks = [t \in CmdIds |-> IdleTask]
  /\ recogs = <<>>
  /\ prompts = 0
  /\ ncmd = 0
  /\ terminated = FALSE
  /\ liveAtTerminate = {}
  /\ pure = NoCall
  /\ ignored = NoneIgnored

(* ------------------------------------------- handle_image_recognition *)
\* the session is registered with the anime model whatever the command was
SessionOfCommand_AnyCommand(model, id) == [model |-> "pre_stable", age |-> 0, event |-> id]

\* lines 49-53: the session the command registers
SessionOfCommand(model, id) == [model |-> model, age |-> 0, event |-> id]

\* the command registers the new task and forgets to cancel the one it replaces
TasksAfterCommand_NoCancel(u, id) ==
  [t \in CmdIds |-> IF t = id THEN NewTask(u) ELSE tasks[t]]

\* lines 56-60: cancel the task registered for u, if any, and create the new one
TasksAfterCommand(u, id) ==
  [t \in CmdIds |->
     IF t = id THEN NewTask(u)
     ELSE IF t = timeout_tasks[u] THEN Cancel(tasks[t])
     ELSE tasks[t]]

handle_image_recognition(u, model, msg) ==
  LET image_url == extract_image_from_event(msg) IN
  IF Truthy(image_url)
  THEN /\ Handled < MaxEvents
       /\ recogs' = Append(recogs, NewRecog(u, model, 0, image_url, terminated))
       /\ UNCHANGED <<waiting_sessions, timeout_tasks, tasks, prompts, ncmd,
                      terminated, liveAtTerminate, pure, ignored>>
  ELSE /\ Handled < MaxEvents
       /\ ncmd' = ncmd + 1
       /\ waiting_sessions' = [waiting_sessions EXCEPT ![u] = SessionOfCommand(model, ncmd + 1)]
       /\ tasks' = TasksAfterCommand(u, ncmd + 1)
       /\ timeout_tasks' = [timeout_tasks EXCEPT ![u] = ncmd + 1]
       /\ prompts' = prompts + 1
       /\ UNCHANGED <<recogs, terminated, liveAtTerminate, pure, ignored>>

anime_search(u, msg) == handle_image_recognition(u, "pre_stable", msg)
gal_search(u, msg) == handle_image_recognition(u, "full_game_model_kira", msg)
trace_search(u, msg) == handle_image_recognition(u, "animetrace_high_beta", msg)

(* ------------------------------------------------------------ on_message *)
\* the image is handed to recognition and the session is left registered
SessionsAfterImage_Kept(u) == waiting_sessions

\* line 87: del self.waiting_sessions[user_id]
SessionsAfterImage(u) == [waiting_sessions EXCEPT ![u] = NoSession]

\* the image of one user cancels the timeout tasks of every user
TasksAfterImage_CancelAll(u) == [t \in CmdIds |-> Cancel(tasks[t])]

\* lines 88-89: cancel the timeout task registered for u, if any
TasksAfterImage(u) ==
  [t \in CmdIds |-> IF t = timeout_tasks[u] THEN Cancel(tasks[t]) ELSE tasks[t]]

\* a session is never too old for its image
IsStale_Never(session) == FALSE

\* line 78: current_time - session["timestamp"] > 30
IsStale(session) == session.age > Timeout

\* every message counts as carrying an image
HasImage_Always(image_url) == TRUE

\* line 83: if not image_url: return
HasImage(image_url) == Truthy(image_url)

\* the handle of the cancelled task stays registered
HandlesAfterImage_Kept(u) == timeout_tasks

\* line 90: del self.timeout_tasks[user_id]
HandlesAfterImage(u) == [timeout_tasks EXCEPT ![u] = NoTask]

on_message(u, msg) ==
  LET session == waiting_sessions[u]
      image_url == extract_image_from_event(msg) IN
  /\ HasSession(u)
  /\ Handled < MaxEvents
  /\ IF IsStale(session) \/ ~HasImage(image_url)
     THEN /\ ignored' = IF Truthy(image_url)
                        THEN [ignored EXCEPT !.stale = @ + 1]
                        ELSE [ignored EXCEPT !.no_image = @ + 1]
          /\ UNCHANGED <<waiting_sessions, timeout_tasks, tasks, recogs>>
     ELSE /\ waiting_sessions' = SessionsAfterImage(u)
          /\ tasks' = TasksAfterImage(u)
          /\ timeout_tasks' = HandlesAfterImage(u)
          /\ recogs' = Append(recogs, NewRecog(u, session.model, session.event, image_url, terminated))
          /\ UNCHANGED ignored
  /\ UNCHANGED <<prompts, ncmd, terminated, liveAtTerminate, pure>>

\* lines 71-72: a message of a user without a session changes nothing
on_message_idle(u) ==
  /\ ~HasSession(u)
  /\ UNCHANGED vars

(* --------------------------------------------------------- timeout_check *)
\* line 267: asyncio.sleep(30) has elapsed for the task
Expired(t) == t.status = "sleeping" /\ t.slept >= Timeout

\* the fire body leaves its own handle registered
HandlesAfterTimeout_Kept(u) == timeout_tasks

\* line 273: del self.timeout_tasks[user_id]
HandlesAfterTimeout(u) == [timeout_tasks EXCEPT ![u] = NoTask]

\* lines 268-275: the fire body up to the await of event.send.  del
\* self.timeout_tasks[user_id] raises KeyError when the key is absent; the
\* handler of line 283 logs it and the task ends without sending.
timeout_check(t) ==
  LET u == tasks[t].user
      session == waiting_sessions[u] IN
  /\ Expired(tasks[t])
  /\ IF HasSession(u)
     THEN /\ waiting_sessions' = [waiting_sessions EXCEPT ![u] = NoSession]
          /\ timeout_tasks' = HandlesAfterTimeout(u)
          /\ tasks' = [tasks EXCEPT ![t] =
                         IF timeout_tasks[u] = NoTask
                         THEN [@ EXCEPT !.status = "done", !.fired = @ + 1, !.slept = 0]
                         ELSE [@ EXCEPT !.status = "sending", !.fired = @ + 1, !.slept = 0,
                                        !.notice = "pending", !.noticeTo = session.event]]
     ELSE /\ tasks' = [tasks EXCEPT ![t].status = "done", ![t].slept = 0]
          /\ UNCHANGED <<waiting_sessions, timeout_tasks>>
  /\ UNCHANGED <<recogs, prompts, ncmd, terminated, liveAtTerminate, pure, ignored>>

\* a failure of event.send leaves timeout_check as an exception of the task
timeout_send_returns_Propagates(t, ok) ==
  /\ tasks[t].status = "sending"
  /\ tasks' = [tasks EXCEPT ![t].status = IF ok THEN "done" ELSE "escaped",
                            ![t].notice = IF ok THEN "sent" ELSE "failed"]
  /\ UNCHANGED <<waiting_sessions, timeout_tasks, recogs, prompts, ncmd,
                 terminated, liveAtTerminate, pure, ignored>>

\* lines 275-279: event.send returns or raises; a failure is logged only
timeout_send_returns(t, ok) ==
  /\ tasks[t].status = "sending"
  /\ tasks' = [tasks EXCEPT ![t].status = "done",
                            ![t].notice = IF ok THEN "sent" ELSE "failed"]
  /\ UNCHANGED <<waiting_sessions, timeout_tasks, recogs, prompts, ncmd,
                 terminated, liveAtTerminate, pure, ignored>>

\* the handler of CancelledError cleans the session of the task's user up
timeout_cancelled_Cleanup(t) ==
  /\ tasks[t].status = "cancelling"
  /\ tasks' = [tasks EXCEPT ![t].status = "cancelled"]
  /\ waiting_sessions' = [waiting_sessions EXCEPT ![tasks[t].user] = NoSession]
  /\ UNCHANGED <<timeout_tasks, recogs, prompts, ncmd, terminated, liveAtTerminate, pure, ignored>>

\* lines 280-282: CancelledError reaches the task, which ends
timeout_cancelled(t) ==
  /\ tasks[t].status = "cancelling"
  /\ tasks' = [tasks EXCEPT ![t].status = "cancelled"]
  /\ UNCHANGED <<waiting_sessions, timeout_tasks, recogs, prompts, ncmd,
                 terminated, liveAtTerminate, pure, ignored>>

(* -------------------------------------------------------------- terminate *)
Registered == {timeout_tasks[u] : u \in Users} \ {NoTask}
Unfinished == {t \in CmdIds : tasks[t].status \in {"sleeping", "cancelling", "sending"}}

\* lines 289-290: cancel every task held in timeout_tasks
TasksAfterTerminate ==
  [t \in CmdIds |-> IF t \in Registered THEN Cancel(tasks[t]) ELSE tasks[t]]

\* the host calls terminate() once, when it unloads the plugin
terminate ==
  /\ ~terminated
  /\ tasks' = TasksAfterTerminate
  /\ timeout_tasks' = [u \in Users |-> NoTask]
  /\ terminated' = TRUE
  /\ liveAtTerminate' = Unfinished
  /\ UNCHANGED <<waiting_sessions, recogs, prompts, ncmd, pure, ignored>>

(* ------------------------------------------------------------------ time *)
\* TickStep seconds pass: loop.time() - session["timestamp"] grows for every
\* session, and so does the time every sleeping task has slept.
Tick ==
  /\ \/ \E u \in Users : HasSession(u) /\ waiting_sessions[u].age < AgeCap
     \/ \E t \in CmdIds : tasks[t].status = "sleeping" /\ tasks[t].slept < AgeCap
  /\ waiting_sessions' =
       [u \in Users |->
          IF HasSession(u)
          THEN [waiting_sessions[u] EXCEPT !.age = Min(@ + TickStep, AgeCap)]
          ELSE waiting_sessions[u]]
  /\ tasks' =
       [t \in CmdIds |->
          IF tasks[t].status = "sleeping"
          THEN [tasks[t] EXCEPT !.slept = Min(@ + TickStep, AgeCap)]
          ELSE tasks[t]]
  /\ UNCHANGED <<timeout_tasks, recogs, prompts, ncmd, terminated, liveAtTerminate, pure, ignored>>

Next ==
  \/ \E u \in Users, msg \in Inbox : anime_search(u, msg)
  \/ \E u \in Users, msg \in Inbox : gal_search(u, msg)
  \/ \E u \in Users, msg \in Inbox : trace_search(u, msg)
  \/ \E u \in Users, msg \in Inbox : on_message(u, msg)
  \/ \E u \in Users : on_message_idle(u)
  \/ \E t \in CmdIds : timeout_check(t)
  \/ \E t \in CmdIds, ok \in BOOLEAN : timeout_send_returns(t, ok)
  \/ \E t \in CmdIds : timeout_cancelled(t)
  \/ terminate
  \/ Tick

Spec == Init /\ [][Next]_vars

(* ------------------------------------------- process_image_recognition *)
(* What the remote endpoint and the image host may answer.  status 0 is a  *)
(* request that raises (connection error, 30 s timeout).  body is the JSON *)
(* of a 200 answer: "data" a non-empty data list whose first candidate has *)
(* characters; "nochar" a first candidate without characters; "malformed"  *)
(* a first candidate that is no object; "empty" data = []; "nodata" no     *)
(* data key; "null" data = null.                                           *)
HTTP_ERROR == 500
Bodies == {"data", "nochar", "malformed", "empty", "nodata", "null"}
ApiResponses ==
  {[status |-> HTTP_OK, body |-> b] : b \in Bodies}
    \cup {[status |-> st, body |-> "none"] : st \in {HTTP_FALLBACK, HTTP_ERROR}}
    \cup {[status |-> 0, body |-> "unreachable"]}
DownloadResponses == {"ok", "http_error", "bad_image"}

Raise == "raise"

\* lines 196-197 and 221-222: response.json(), then len(result.get('data', []))
\* for the log line, which raises TypeError when data is null
ParseBody(body) == IF body = "null" THEN Raise ELSE body

\* status 422 is raised like every other status that is not 200
call_animetrace_api_with_url_No422(resp) ==
  IF resp.status = 0 THEN Raise
  ELSE IF resp.status # HTTP_OK THEN Raise
  ELSE ParseBody(resp.body)

\* call_animetrace_api_with_url: what it returns, or Raise
call_animetrace_api_with_url(resp) ==
  IF resp.status = 0 THEN Raise
  ELSE IF resp.status # HTTP_OK
       THEN IF resp.status = HTTP_FALLBACK THEN "empty" ELSE Raise
       ELSE ParseBody(resp.body)

\* status 422 is answered with an empty data list in base64 mode too
call_animetrace_api_Fallback422(resp) == call_animetrace_api_with_url(resp)

\* call_animetrace_api: what it returns, or Raise
call_animetrace_api(resp) ==
  IF resp.status = 0 THEN Raise
  ELSE IF resp.status # HTTP_OK THEN Raise
  ELSE ParseBody(resp.body)

\* download_and_process_image: the base64 payload, or Raise
download_and_process_image(resp) == IF resp = "ok" THEN "base64" ELSE Raise

\* the base64 mode is tried whatever the URL mode returned
NeedsFallback_Always(results) == TRUE

\* line 102: not results or not results.get("data")
NeedsFallback(results) == results \in {"empty", "nodata"}

\* format_results on the body kinds: the text it returns, or Raise
format_results(results) ==
  IF results \in {"empty", "nodata"} THEN "no_match"
  ELSE IF results = "malformed" THEN Raise
  ELSE IF results = "nochar" THEN "no_character"
  ELSE "listing"

\* lines 108-110: format the results and call event.send with the text;
\* lines 115-118: an exception before the send makes the handler call
\* event.send with the error text
ReplyWith(r, results) ==
  IF results = Raise \/ format_results(results) = Raise
  THEN [r EXCEPT !.pc = "sending_error", !.sends = @ + 1, !.reply = "error", !.text = "error"]
  ELSE [r EXCEPT !.pc = "sending_result", !.sends = @ + 1, !.reply = "result",
                 !.text = format_results(results)]

\* lines 99-105, the URL-mode answer
AfterUrlCall(r, resp) ==
  LET results == call_animetrace_api_with_url(resp)
      r1 == [r EXCEPT !.urlCalls = @ + 1, !.urlResp = resp] IN
  IF results # Raise /\ NeedsFallback(results)
  THEN [r1 EXCEPT !.pc = "download"]
  ELSE ReplyWith(r1, results)

\* lines 104-105, the download answer
AfterDownload(r, resp) ==
  LET r1 == [r EXCEPT !.downloads = @ + 1, !.dlResp = resp] IN
  IF download_and_process_image(resp) = Raise
  THEN ReplyWith(r1, Raise)
  ELSE [r1 EXCEPT !.pc = "b64"]

\* lines 105-110, the base64-mode answer
AfterB64Call(r, resp) ==
  ReplyWith([r EXCEPT !.b64Calls = @ + 1, !.b64Resp = resp], call_animetrace_api(resp))

\* a failed send of the result reaches the outer handler, which sends the error
\* text; a failed send of the error text leaves process_image_recognition
AfterSend_Propagates(r, ok) ==
  IF ok THEN [r EXCEPT !.pc = "done", !.delivered = TRUE]
  ELSE IF r.pc = "sending_result"
       THEN [r EXCEPT !.pc = "sending_error", !.sends = @ + 1, !.reply = "error", !.text = "error"]
       ELSE [r EXCEPT !.pc = "escaped"]

\* lines 109-113 and 117-121: event.send returns, or raises and is logged
AfterSend(r, ok) == [r EXCEPT !.pc = "done", !.delivered = ok]

url_call_returns(i, resp) ==
  /\ recogs[i].pc = "url"
  /\ recogs' = [recogs EXCEPT ![i] = AfterUrlCall(@, resp)]
  /\ UNCHANGED <<waiting_sessions, timeout_tasks, tasks, prompts, ncmd, terminated, liveAtTerminate, pure, ignored>>

download_returns(i, resp) ==
  /\ recogs[i].pc = "download"
  /\ recogs' = [recogs EXCEPT ![i] = AfterDownload(@, resp)]
  /\ UNCHANGED <<waiting_sessions, timeout_tasks, tasks, prompts, ncmd, terminated, liveAtTerminate, pure, ignored>>

b64_call_returns(i, resp) ==
  /\ recogs[i].pc = "b64"
  /\ recogs' = [recogs EXCEPT ![i] = AfterB64Call(@, resp)]
  /\ UNCHANGED <<waiting_sessions, timeout_tasks, tasks, prompts, ncmd, terminated, liveAtTerminate, pure, ignored>>

send_returns(i, ok) ==
  /\ recogs[i].pc \in {"sending_result", "sending_error"}
  /\ recogs' = [recogs EXCEPT ![i] = AfterSend(@, ok)]
  /\ UNCHANGED <<waiting_sessions, timeout_tasks, tasks, prompts, ncmd, terminated, liveAtTerminate, pure, ignored>>

\* the recognitions the handlers start: process_image_recognition is entered
\* with an image URL and one of the three models
RecogInputs(u, url) == {NewRecog(u, m, 0, url, FALSE) : m \in Models}

InitRecog ==
  /\ waiting_sessions = [u \in Users |-> NoSession]
  /\ timeout_tasks = [u \in Users |-> NoTask]
  /\ tasks = [t \in CmdIds |-> IdleTask]
  /\ recogs \in {<<a>> : a \in RecogInputs("u1", UrlA)}
                  \cup {<<a, b>> : a \in RecogInputs("u1", UrlA), b \in RecogInputs("u2", UrlB)}
  /\ prompts = 0
  /\ ncmd = 0
  /\ terminated = FALSE
  /\ liveAtTerminate = {}
  /\ pure = NoCall
  /\ ignored = NoneIgnored

NextRecog ==
  \/ \E i \in DOMAIN recogs, resp \in ApiResponses : url_call_returns(i, resp)
  \/ \E i \in DOMAIN recogs, resp \in DownloadResponses : download_returns(i, resp)
  \/ \E i \in DOMAIN recogs, resp \in ApiResponses : b64_call_returns(i, resp)
  \/ \E i \in DOMAIN recogs, ok \in BOOLEAN : send_returns(i, ok)

SpecRecog == InitRecog /\ [][NextRecog]_vars

(* ==================================================================== *)
(* Properties of the session manager                                     *)
(* ==================================================================== *)
SessionTasks(u) == {t \in CmdIds : tasks[t].user = u}
\* a timeout that can still fire: created, not cancelled, fire body not entered
Armed(t) == tasks[t].status = "sleeping"
WasCancelled(t) == tasks[t].status \in {"cancelling", "cancelled"}

\* C1: every user has at most one waiting session and at most one timeout task
\* that is neither cancelled nor fired, and that task is the one registered in
\* timeout_tasks for the session the user has now; a command that replaces a
\* session has cancelled the task of the session it replaced.
C1_OneSessionOneTimeout ==
  \A u \in Users :
    /\ Cardinality({t \in SessionTasks(u) : Armed(t)}) <= 1
    /\ \A t \in SessionTasks(u) :
         Armed(t) => /\ timeout_tasks[u] = t
                     /\ HasSession(u)
                     /\ waiting_sessions[u].event = t

\* a second command has replaced the session of a user: the first task is
\* cancelled, the second is armed
C1_Witness ==
  \E u \in Users : \E t1, t2 \in SessionTasks(u) :
    /\ t1 < t2
    /\ WasCancelled(t1)
    /\ Armed(t2)
    /\ waiting_sessions[u].event = t2

\* the recognitions and the timeout notices that session instance c produced
RecognitionsOf(c) == {i \in DOMAIN recogs : recogs[i].sid = c}
NoticesOf(c) == {t \in CmdIds : tasks[t].fired > 0 /\ tasks[t].noticeTo = c}

\* C2: a session instance is resolved at most once: the recognitions handed off
\* for it and the timeout notices sent for it number at most one together, so
\* an image-resolved session gets no timeout notice and two images give one
\* recognition.
C2_ResolvedAtMostOnce ==
  \A c \in CmdIds : Cardinality(RecognitionsOf(c)) + Cardinality(NoticesOf(c)) <= 1

\* both ways of resolving have happened in one run: one session went to
\* recognition with its timeout cancelled, another got its timeout notice
C2_Witness ==
  \E c, d \in CmdIds :
    /\ Cardinality(RecognitionsOf(c)) = 1
    /\ WasCancelled(c)
    /\ Cardinality(NoticesOf(d)) = 1
    /\ RecognitionsOf(d) = {}

\* C3: a step of a cancelled timeout task runs no fire body (no notice, the fire
\* count unchanged) and deletes no entry of waiting_sessions or timeout_tasks,
\* and the task stays cancelled; no task runs its fire body more than once.
C3_CancelledNeverFires ==
  [][\A t \in CmdIds :
       /\ tasks'[t].fired <= 1
       /\ WasCancelled(t) =>
            /\ tasks'[t].status \in {"cancelling", "cancelled"}
            /\ tasks'[t].fired = tasks[t].fired
            /\ tasks'[t].notice = tasks[t].notice
            /\ tasks'[t] # tasks[t] =>
                 /\ waiting_sessions' = waiting_sessions
                 /\ timeout_tasks' = timeout_tasks]_vars

\* a cancelled task has ended without firing, while the session that replaced
\* its own is registered
C3_Witness ==
  \E t \in CmdIds :
    /\ tasks[t].status = "cancelled"
    /\ tasks[t].fired = 0
    /\ HasSession(tasks[t].user)
    /\ waiting_sessions[tasks[t].user].event # t

(* The event loop keeps running: as long as the clock can advance, a timeout *)
(* task is ready or a send that a timeout task started can return, one of  *)
(* these steps is taken.  Commands, messages and terminate() come from      *)
(* outside and need not happen.                                             *)
LoopStep ==
  \/ Tick
  \/ \E t \in CmdIds : timeout_check(t)
  \/ \E t \in CmdIds, ok \in BOOLEAN : timeout_send_returns(t, ok)
  \/ \E t \in CmdIds : timeout_cancelled(t)

Fairness == WF_vars(LoopStep)

SpecLive == Init /\ [][Next]_vars /\ Fairness

\* the fire body of task t has run and called event.send with the timeout notice
Fired(t) == tasks[t].fired = 1 /\ tasks[t].notice # "none"

\* C4: a timeout task that is asleep is eventually cancelled (which only an image
\* of its user, a further command of its user or terminate() does) or runs its
\* fire body; the fire body runs once, sends the notice to the event stored in
\* the session, and leaves the user without session and without timeout handle.
C4_TimeoutNotice ==
  /\ \A t \in CmdIds : Armed(t) ~> (WasCancelled(t) \/ Fired(t))
  /\ [][\A t \in CmdIds :
          /\ tasks'[t].fired <= 1
          /\ tasks'[t].fired # tasks[t].fired =>
               /\ tasks'[t].notice = "pending"
               /\ tasks'[t].noticeTo = waiting_sessions[tasks[t].user].event
               /\ ~HasSession(tasks[t].user)'
               /\ timeout_tasks'[tasks[t].user] = NoTask]_vars

\* the timeout of a session has fired and its notice was delivered, and the
\* user is idle again
C4_Witness ==
  \E t \in CmdIds :
    /\ tasks[t].status = "done"
    /\ tasks[t].notice = "sent"
    /\ tasks[t].noticeTo = t
    /\ ~HasSession(tasks[t].user)
    /\ timeout_tasks[tasks[t].user] = NoTask

\* C5 (as claimed): a user has a registered timeout task exactly when the user
\* has a waiting session.
C5_HandleIffSession ==
  \A u \in Users : (timeout_tasks[u] # NoTask) <=> HasSession(u)

\* C6 (as claimed): once terminate() has run, no task that was unfinished when it
\* ran is still registered, every such task is cancelled, and none of them
\* delivers its timeout notice.
C6_TeardownCancelsAll ==
  terminated =>
    /\ \A u \in Users : timeout_tasks[u] \notin liveAtTerminate
    /\ \A t \in liveAtTerminate : WasCancelled(t) /\ tasks[t].notice # "sent"

\* C7 (as claimed): once terminate() has run, no session that was waiting when
\* it ran is still registered, and no recognition is started for such a session.
C7_TeardownDestroysSessions ==
  terminated =>
    /\ \A u \in Users : HasSession(u) => waiting_sessions[u].event \notin liveAtTerminate
    /\ \A i \in DOMAIN recogs :
         recogs[i].late /\ recogs[i].sid # 0 => recogs[i].sid \notin liveAtTerminate

(* ==================================================================== *)
(* Properties of process_image_recognition                               *)
(* ==================================================================== *)
\* the URL-mode answers that make the caller fall back
FallbackAnswer(resp) ==
  \/ resp.status = HTTP_FALLBACK
  \/ resp.status = HTTP_OK /\ resp.body \in {"empty", "nodata"}

\* the URL-mode answers that carry a non-empty data list
DataAnswer(resp) ==
  resp.status = HTTP_OK /\ resp.body \in {"data", "nochar", "malformed"}

Replied(r) == r.pc \in {"sending_result", "sending_error", "done"}

\* C8 (as claimed): a recognition whose URL-mode call got status 422, or 200 with
\* missing or empty data, has made one download and one base64-mode call when
\* it ends.
C8_FallbackAlwaysCalls ==
  \A i \in DOMAIN recogs :
    recogs[i].pc = "done" /\ FallbackAnswer(recogs[i].urlResp) =>
      recogs[i].downloads = 1 /\ recogs[i].b64Calls = 1

\* C8 (amended): after such a URL-mode answer the image is downloaded exactly
\* once; the base64-mode call is made exactly once if the download succeeded
\* and not at all if it failed, and never before the download.
C8_FallbackDownloadsThenCalls ==
  \A i \in DOMAIN recogs :
    LET r == recogs[i] IN
    FallbackAnswer(r.urlResp) =>
      /\ r.pc \in {"download", "b64", "sending_result", "sending_error", "done"}
      /\ r.downloads = (IF r.pc = "download" THEN 0 ELSE 1)
      /\ r.b64Calls <= 1
      /\ r.b64Calls = 1 => r.dlResp = "ok"
      /\ Replied(r) => (r.b64Calls = 1 <=> r.dlResp = "ok")

\* status 422 was answered in URL mode, the download succeeded and the
\* base64-mode call was made
C8_Witness ==
  \E i \in DOMAIN recogs :
    /\ recogs[i].pc = "done"
    /\ recogs[i].urlResp.status = HTTP_FALLBACK
    /\ recogs[i].downloads = 1
    /\ recogs[i].b64Calls = 1

\* C9: the URL-mode call is made once per recognition, and after a 200 answer
\* with a non-empty data list no download and no base64-mode call is made.
C9_NoFallbackOnData ==
  \A i \in DOMAIN recogs :
    LET r == recogs[i] IN
    /\ r.urlCalls = (IF r.pc = "url" THEN 0 ELSE 1)
    /\ DataAnswer(r.urlResp) => r.downloads = 0 /\ r.b64Calls = 0 /\ Replied(r)

\* a recognition answered with data in URL mode has ended with its result sent
C9_Witness ==
  \E i \in DOMAIN recogs :
    /\ recogs[i].pc = "done"
    /\ recogs[i].urlResp = [status |-> HTTP_OK, body |-> "data"]
    /\ recogs[i].reply = "result"
    /\ recogs[i].text = "listing"

\* C10: a recognition calls event.send exactly once, with the formatted result or
\* with the error text, and not before the calls it makes are over; when that
\* send fails nothing more is sent and process_image_recognition returns.
C10_OneReply ==
  \A i \in DOMAIN recogs :
    LET r == recogs[i] IN
    /\ r.pc # "escaped"
    /\ r.sends = (IF Replied(r) THEN 1 ELSE 0)
    /\ Replied(r) => r.reply \in {"result", "error"}
    /\ r.reply = "result" => r.text \in {"listing", "no_match", "no_character"}
    /\ r.reply = "error" => r.text = "error"

\* the send of a result and the send of an error text have both failed, each in
\* a recognition that ended with that one send
C10_Witness ==
  \E i, j \in DOMAIN recogs :
    /\ recogs[i].pc = "done" /\ ~recogs[i].delivered
    /\ recogs[i].reply = "result" /\ recogs[i].sends = 1
    /\ recogs[j].pc = "done" /\ ~recogs[j].delivered
    /\ recogs[j].reply = "error" /\ recogs[j].sends = 1

(* ------------------------------------------------------ format_results *)
(* The response JSON as format_results reads it.  data is the value of    *)
(* the "data" key: absent, null, or a list of candidate objects; a         *)
(* candidate may lack the "character" key; an entry may lack "character"  *)
(* and "work".  The rendered string is the list of the lines that         *)
(* "\n".join glues, each line a record of what it prints.                 *)
MaxChars == 6
TopN == 5
Missing == "missing"
FormatModels == Models \cup {"unknown_model"}
FormatEntries ==
  { [character |-> "Rem", work |-> "ReZero"],
    [character |-> "Saber", work |-> "Fate"],
    [character |-> Missing, work |-> Missing] }
CharacterLists == UNION { [1..n -> FormatEntries] : n \in 0..MaxChars }
FormatCandidates ==
  { [has_character |-> FALSE, character |-> <<>>] }
    \cup { [has_character |-> TRUE, character |-> cs] : cs \in CharacterLists }
OtherCandidate ==
  [has_character |-> TRUE, character |-> << [character |-> "Miku", work |-> "Vocaloid"] >>]
FormatResponses ==
  { [tag |-> t, data |-> <<>>] : t \in {"missing", "null", "list"} }
    \cup { [tag |-> "list", data |-> <<c>>] : c \in FormatCandidates }
    \cup { [tag |-> "list", data |-> <<c, OtherCandidate>>] : c \in FormatCandidates }

Line(kind, n, a, b) == [line |-> kind, n |-> n, a |-> a, b |-> b]

\* line 228 and line 234: the two fixed strings
NoMatchText == << Line("no_match", 0, "", "") >>
NoCharacterText == << Line("no_character", 0, "", "") >>

\* lines 236-247: model_name_map.get(model, ...) and emoji_map.get(model, ...)
model_name(model) ==
  CASE model = "pre_stable" -> "anime"
    [] model = "full_game_model_kira" -> "galgame"
    [] model = "animetrace_high_beta" -> "general"
    [] OTHER -> "image"

emoji(model) ==
  CASE model = "pre_stable" -> "flags"
    [] model = "full_game_model_kira" -> "gamepad"
    [] OTHER -> "magnifier"

\* line 249: the header and the rule of 20 "="
Header(model) == Line("header", 0, emoji(model), model_name(model))
Rule == Line("rule", 20, "=", "")

\* lines 253-255: char.get("character", default), char.get("work", default)
EntryLine(i, char) ==
  Line("entry", i + 1,
       IF char.character = Missing THEN "unknown_character" ELSE char.character,
       IF char.work = Missing THEN "unknown_work" ELSE char.work)

\* line 258 and line 260
TotalLine(n) == Line("total", n, "showing", "top")
Attribution == Line("attribution", 0, "AnimeTrace", "")

\* every entry is listed
Shown_All(characters) == characters

\* line 252: characters[:5]
Shown(characters) ==
  SubSeq(characters, 1, IF Len(characters) < TopN THEN Len(characters) ELSE TopN)

\* line 252-255: for i, char in enumerate(...): lines.append(...), i from 0
RECURSIVE AppendEntries(_, _, _)
AppendEntries(lines, shown, i) ==
  IF i >= Len(shown) THEN lines
  ELSE AppendEntries(Append(lines, EntryLine(i, shown[i + 1])), shown, i + 1)

\* line 231: first_result.get("character", [])
CharactersOf(candidate) ==
  IF candidate.has_character THEN candidate.character ELSE <<>>

\* format_results on the response itself: the lines of the string it returns
FormatResults(data, model) ==
  IF data.tag # "list" \/ data.data = <<>> THEN NoMatchText
  ELSE LET characters == CharactersOf(data.data[1]) IN
       IF characters = <<>> THEN NoCharacterText
       ELSE LET listed == AppendEntries(<<Header(model), Rule>>, Shown(characters), 0)
                counted == IF Len(characters) > TopN
                           THEN Append(listed, TotalLine(Len(characters)))
                           ELSE listed
            IN Append(counted, Attribution)

\* one call of format_results: the arguments, then the returned lines
FormatCalls ==
  { [pc |-> "call", data |-> d, model |-> m, out |-> <<>>] :
      d \in FormatResponses, m \in FormatModels }

InitFormat ==
  /\ waiting_sessions = [u \in Users |-> NoSession]
  /\ timeout_tasks = [u \in Users |-> NoTask]
  /\ tasks = [id \in CmdIds |-> IdleTask]
  /\ recogs = <<>>
  /\ prompts = 0
  /\ ncmd = 0
  /\ terminated = FALSE
  /\ liveAtTerminate = {}
  /\ pure \in FormatCalls
  /\ ignored = NoneIgnored

format_call ==
  /\ pure.pc = "call"
  /\ pure' = [pure EXCEPT !.pc = "returned",
                          !.out = FormatResults(pure.data, pure.model)]
  /\ UNCHANGED <<waiting_sessions, timeout_tasks, tasks, recogs, prompts, ncmd,
                 terminated, liveAtTerminate, ignored>>

NextFormat == format_call

SpecFormat == InitFormat /\ [][NextFormat]_vars

\* C11: format_results returns the no-match string iff data is missing or
\* empty; otherwise the no-character string iff the first candidate has no
\* character entries; otherwise the header, then exactly min(5, n) lines
\* numbered 1..min(5, n) with the first candidate's entries in the order
\* received, then the "n total" line iff n > 5, then the attribution line.
C11_FormatContract ==
  pure.pc = "returned" =>
    LET out == pure.out
        noData == pure.data.tag # "list" \/ Len(pure.data.data) = 0
        first == pure.data.data[1]
        n == IF first.has_character THEN Len(first.character) ELSE 0
        k == IF n < 5 THEN n ELSE 5
        name(e) == IF e.character = Missing THEN "unknown_character" ELSE e.character
        work(e) == IF e.work = Missing THEN "unknown_work" ELSE e.work
    IN /\ (out = NoMatchText) <=> noData
       /\ ~noData => ((out = NoCharacterText) <=> n = 0)
       /\ (~noData /\ n > 0) =>
            /\ out[1].line = "header"
            /\ Len(out) = 2 + k + (IF n > 5 THEN 1 ELSE 0) + 1
            /\ \A i \in 1..k :
                 /\ out[2 + i].line = "entry"
                 /\ out[2 + i].n = i
                 /\ out[2 + i].a = name(first.character[i])
                 /\ out[2 + i].b = work(first.character[i])
            /\ n > 5 => (out[3 + k].line = "total" /\ out[3 + k].n = n)
            /\ out[Len(out)] = Attribution

\* a response with more than five entries, two of them different, rendered
C11_Witness ==
  /\ pure.pc = "returned"
  /\ pure.data.tag = "list" /\ Len(pure.data.data) > 0
  /\ pure.data.data[1].has_character
  /\ Len(pure.data.data[1].character) > 5
  /\ pure.data.data[1].character[1] # pure.data.data[1].character[2]
  /\ Len(pure.out) = 9

(* ---------------------------------------------- one pending command only *)
\* C12: after a recognition command of user u has been handled, with or
\* without an image, the only session and the only timeout that can be
\* pending for u are those of that very command: nothing of an earlier
\* command of u is left waiting or able to fire.
C12_CommandSupersedesEarlier ==
  [][\A u \in Users : \A model \in Models : \A msg \in Inbox :
       handle_image_recognition(u, model, msg) =>
         /\ waiting_sessions'[u] # NoSession =>
              (ncmd' = ncmd + 1 /\ waiting_sessions'[u].event = ncmd')
         /\ \A t \in CmdIds :
              (tasks'[t].user = u /\ tasks'[t].status = "sleeping") =>
                (ncmd' = ncmd + 1 /\ t = ncmd')]_vars

(* ------------------------------------------------- errors of an attempt *)
\* C13: a URL-mode status that is neither 200 nor 422, a base64-mode status
\* that is not 200 (422 included) and a failed download each end the
\* attempt: no download or API call is made after it, and the one reply of
\* the attempt is the error text, never a result.
C13_ErrorsAbort ==
  \A i \in DOMAIN recogs :
    LET r == recogs[i] IN
    /\ r.urlResp.status \notin {0, HTTP_OK, HTTP_FALLBACK} =>
         /\ r.urlCalls = 1 /\ r.downloads = 0 /\ r.b64Calls = 0
         /\ r.sends = 1 /\ r.reply = "error" /\ r.text = "error"
    /\ r.dlResp \notin {"none", "ok"} =>
         /\ r.urlCalls = 1 /\ r.downloads = 1 /\ r.b64Calls = 0
         /\ r.sends = 1 /\ r.reply = "error" /\ r.text = "error"
    /\ r.b64Resp.status \notin {0, HTTP_OK} =>
         /\ r.urlCalls = 1 /\ r.downloads = 1 /\ r.b64Calls = 1
         /\ r.sends = 1 /\ r.reply = "error" /\ r.text = "error"

\* one attempt ended by status 422 in base64 mode and another by a failed
\* download, each with its error reply delivered
C13_Witness ==
  \E i, j \in DOMAIN recogs :
    /\ recogs[i].pc = "done" /\ recogs[i].delivered
    /\ recogs[i].b64Resp.status = HTTP_FALLBACK
    /\ recogs[i].reply = "error"
    /\ recogs[j].pc = "done" /\ recogs[j].delivered
    /\ recogs[j].dlResp = "http_error"
    /\ recogs[j].reply = "error"

(* ------------------------------------------- messages without an image *)
\* C14: when a user with a waiting session sends a message no image can be
\* extracted from, on_message leaves the session (model, timestamp, event)
\* and the registered timeout task as they are, starts no recognition and
\* sends nothing; the timeout is neither cancelled nor restarted.
C14_NoImageKeepsWaiting ==
  [][\A u \in Users : \A msg \in Inbox :
       (HasSession(u) /\ ~Truthy(extract_image_from_event(msg)) /\ on_message(u, msg)) =>
         /\ waiting_sessions' = waiting_sessions
         /\ timeout_tasks' = timeout_tasks
         /\ tasks' = tasks
         /\ recogs' = recogs
         /\ prompts' = prompts]_vars

\* a waiting user has sent a message without an image before the session is
\* 30 s old, and is still waiting with the timeout asleep
C14_Witness ==
  \E u \in Users :
    /\ ignored.no_image > 0
    /\ ncmd = 1
    /\ HasSession(u) /\ waiting_sessions[u].age < Timeout
    /\ timeout_tasks[u] # NoTask
    /\ tasks[timeout_tasks[u]].status = "sleeping"

(* ------------------------------------------------------- user isolation *)
\* what the plugin holds for user v: the session, the registered handle and
\* the state of every timeout task created for v
StateOf(v) ==
  [session |-> waiting_sessions[v],
   handle |-> timeout_tasks[v],
   timeouts |-> [t \in CmdIds |-> IF tasks[t].user = v THEN tasks[t] ELSE IdleTask]]

\* a step of a handler that runs for user u: a command, an incoming message,
\* or a step of a timeout task of u.  Each handler is told from the passing
\* of time by what it counts or by the status it changes before the step is
\* compared with the handler itself.
StepFor(u) ==
  \/ /\ ncmd' # ncmd \/ recogs' # recogs
     /\ \E model \in Models, msg \in Inbox : handle_image_recognition(u, model, msg)
  \/ /\ recogs' # recogs \/ ignored' # ignored
     /\ \E msg \in Inbox : on_message(u, msg)
  \/ \E t \in CmdIds :
       /\ tasks[t].user = u
       /\ tasks'[t].status # tasks[t].status
       /\ timeout_check(t) \/ timeout_send_returns(t, TRUE)
            \/ timeout_send_returns(t, FALSE) \/ timeout_cancelled(t)

\* C15: a command, an incoming message or a timeout firing for user u leaves
\* the session and the timeout task of every other user v unchanged.
C15_UsersIsolated ==
  [][\A u \in Users : \A v \in Users \ {u} :
       ~(StateOf(v)' # StateOf(v) /\ StepFor(u))]_vars

\* user v waits with the timeout asleep although another user, whose command
\* came later, has had the image recognized or the timeout fired
C15_Witness ==
  \E u \in Users : \E v \in Users \ {u} :
    /\ HasSession(v) /\ waiting_sessions[v].event = 1
    /\ timeout_tasks[v] = 1 /\ tasks[1].status = "sleeping"
    /\ tasks[2].user = u
    /\ ~HasSession(u)
    /\ \/ \E i \in DOMAIN recogs : recogs[i].user = u /\ recogs[i].sid = 2
       \/ tasks[2].fired = 1

(* --------------------------------------------------- model of a session *)
\* C16: the image that resolves a session is recognized with the model of
\* the most recent command without an image of that user: such a command
\* stores its model in the session, the model stays while the session is that
\* command's, and on_message hands the stored model to the recognition when
\* it removes the session.
C16_ModelOfLastCommand ==
  [][\A u \in Users :
       /\ \A model \in Models : \A msg \in Inbox :
            (ncmd' = ncmd + 1 /\ handle_image_recognition(u, model, msg)) =>
              waiting_sessions'[u] = [model |-> model, age |-> 0, event |-> ncmd']
       /\ (HasSession(u) /\ waiting_sessions'[u].event = waiting_sessions[u].event) =>
            waiting_sessions'[u].model = waiting_sessions[u].model
       /\ \A msg \in Inbox :
            (HasSession(u) /\ waiting_sessions'[u] = NoSession /\ on_message(u, msg)) =>
              /\ Len(recogs') = Len(recogs) + 1
              /\ recogs'[Len(recogs')].user = u
              /\ recogs'[Len(recogs')].sid = waiting_sessions[u].event
              /\ recogs'[Len(recogs')].model = waiting_sessions[u].model]_vars

\* a user has sent two commands without an image, and the image sent after the
\* second has been handed to recognition with a model other than the anime one
C16_Witness ==
  \E i \in DOMAIN recogs :
    /\ recogs[i].sid = 2
    /\ tasks[1].user = recogs[i].user
    /\ tasks[2].user = recogs[i].user
    /\ recogs[i].model = "full_game_model_kira"
    /\ ~HasSession(recogs[i].user)

(* ------------------------------------------- failure of the timeout notice *)
\* C17: when the send of the timeout notice fails, the failure stays inside
\* timeout_check, which returns normally, and the session and the handle of
\* that timeout have both been removed: already while the send is under way,
\* and still after it has failed.
C17_NoticeFailureContained ==
  \A t \in CmdIds :
    LET u == tasks[t].user IN
    /\ tasks[t].status # "escaped"
    /\ tasks[t].notice = "failed" => tasks[t].status = "done"
    /\ tasks[t].notice \in {"pending", "failed"} =>
         /\ tasks[t].fired = 1
         /\ waiting_sessions[u].event # tasks[t].noticeTo
         /\ timeout_tasks[u] # t

\* the notice of a timeout could not be sent; its task has ended and the user
\* has neither a session nor a handle
C17_Witness ==
  \E t \in CmdIds :
    /\ tasks[t].notice = "failed"
    /\ tasks[t].status = "done"
    /\ ~HasSession(tasks[t].user)
    /\ timeout_tasks[tasks[t].user] = NoTask

(* ----------------------------------------------------- stale sessions *)
\* C18: an image that arrives when the session is more than 30 s old starts
\* no recognition: on_message returns and leaves the session and the timeout
\* task as they are.
C18_StaleImageIgnored ==
  [][\A u \in Users : \A msg \in Inbox :
       (waiting_sessions[u].age > 30 /\ Truthy(extract_image_from_event(msg))
          /\ on_message(u, msg)) =>
         /\ recogs' = recogs
         /\ waiting_sessions' = waiting_sessions
         /\ timeout_tasks' = timeout_tasks
         /\ tasks' = tasks
         /\ prompts' = prompts]_vars

\* an image has met a session older than 30 s; the session is still there and
\* no recognition has been started
C18_Witness ==
  \E u \in Users :
    /\ ignored.stale > 0
    /\ ncmd = 1
    /\ HasSession(u) /\ waiting_sessions[u].age > 30
    /\ recogs = <<>>

(* ------------------------------------------- extract_image_from_event *)
\* one call of extract_image_from_event: the message, then the value returned
ExtractCalls == { [pc |-> "call", msg |-> m, out |-> None] : m \in Messages }

InitExtract ==
  /\ waiting_sessions = [u \in Users |-> NoSession]
  /\ timeout_tasks = [u \in Users |-> NoTask]
  /\ tasks = [id \in CmdIds |-> IdleTask]
  /\ recogs = <<>>
  /\ prompts = 0
  /\ ncmd = 0
  /\ terminated = FALSE
  /\ liveAtTerminate = {}
  /\ pure \in ExtractCalls
  /\ ignored = NoneIgnored

extract_call ==
  /\ pure.pc = "call"
  /\ pure' = [pure EXCEPT !.pc = "returned", !.out = extract_image_from_event(pure.msg)]
  /\ UNCHANGED <<waiting_sessions, timeout_tasks, tasks, recogs, prompts, ncmd,
                 terminated, liveAtTerminate, ignored>>

NextExtract == extract_call

SpecExtract == InitExtract /\ [][NextExtract]_vars

\* what the claim calls usable: a url field with something but blanks in it,
\* or else a file field that embeds an http(s) URL
UsableUrlField(seg) == seg.url \notin {"", " "}
UsableFileField(seg) == seg.file = "'https://b/2.png'"
YieldsUrl(seg) == seg.type = "Image" /\ (UsableUrlField(seg) \/ UsableFileField(seg))
UrlYielded(seg) == IF UsableUrlField(seg) THEN UrlA ELSE UrlB

\* C19: extract_image_from_event returns the URL of the first image segment,
\* in message order, that yields a usable URL, the url field taken before the
\* file field; image segments without a usable URL and placeholder texts are
\* skipped, and nothing is returned when no segment yields a URL.
C19_FirstUsableUrl ==
  pure.pc = "returned" =>
    LET msg == pure.msg
        yielding == {i \in DOMAIN msg : YieldsUrl(msg[i])}
    IN IF yielding = {}
       THEN ~Truthy(pure.out)
       ELSE \E i \in yielding :
              /\ \A j \in yielding : i <= j
              /\ pure.out = UrlYielded(msg[i])

(* ------------------------------------------------- handle and session *)
\* C20: in every state, after terminate() too, a user with a registered
\* timeout task has a waiting session, and the registered task is the one
\* created by the command that created that session: a handle never outlives
\* its session.
C20_HandleBelongsToSession ==
  \A u \in Users :
    timeout_tasks[u] # NoTask =>
      /\ HasSession(u)
      /\ timeout_tasks[u] = waiting_sessions[u].event
      /\ tasks[timeout_tasks[u]].user = u

\* a user has replaced the session of a first command by a second one, whose
\* task is the one registered, while another user's session has been
\* resolved or has timed out
C20_Witness ==
  \E u \in Users : \E v \in Users \ {u} :
    /\ tasks[1].user = v /\ ~HasSession(v) /\ timeout_tasks[v] = NoTask
    /\ tasks[2].user = u /\ tasks[2].status = "cancelled"
    /\ tasks[3].user = u /\ timeout_tasks[u] = 3
    /\ waiting_sessions[u].event = 3

====
